---- MODULE Spec2Model ----
(***************************************************************************)
(* Streamlink_CLI: the playback scripts (streamlink_cli.py, the two        *)
(* streamlink-cli.py scripts, twitch_mpv_player.py) and the Twitch API     *)
(* helpers (twitch.py, twitch_helper.py).                                  *)
(*                                                                         *)
(* Conventions                                                             *)
(*  - a Python float is kept in hundredths: 12.5 is 1250; None is NoPos.   *)
(*  - a log text is a sequence of words and " " separators, so that        *)
(*    str.split() is a computation and not the identity.                   *)
(*  - an outcome of a call is [kind |-> "return" | "raise", ...].          *)
(*  - an argument that may be of several Python types carries its type:    *)
(*    [str |-> "1"], [int |-> 12345], [list |-> <<"user1", "user2">>].      *)
(***************************************************************************)
EXTENDS Integers, Sequences, FiniteSets, TLC

(***************************************************************************)
(* Bounds of the model                                                     *)
(***************************************************************************)
MaxLog == 2         \* longest log-line stream the player emits
MaxBlocks == 2      \* largest byte source, in whole blocks
MaxEofReads == 2    \* reads the player may still ask for at end of stream
MaxKeys == 1        \* presses of a bound key in one run
MaxReopens == 1     \* times the player opens the source again in one run

Min(a, b) == IF a < b THEN a ELSE b

(***************************************************************************)
(* Script variants                                                         *)
(*   "cli"   src/src/streamlink_cli.py                                     *)
(*   "root"  src/streamlink-cli.py                                         *)
(*   "plain" src/src/streamlink-cli.py                                     *)
(*   "class" src/src/twitch_mpv_player.py                                  *)
(* and the metadata script                                                 *)
(*   "twitch" src/src/twitch.py                                            *)
(***************************************************************************)
Variants == {"cli", "root", "plain", "class"}
Scripts == Variants \cup {"twitch"}

STREAMER == "chan"
NoPos == -1

(***************************************************************************)
(* Log lines and skip_silence.check                                        *)
(***************************************************************************)
\* "silence_end: 12.50"
LineBare == <<"silence_end:", " ", "12.50">>
\* "silencedetect: silence_end: 12.50 | silence_duration: 3"
LineDetect == <<"silencedetect:", " ", "silence_end:", " ", "12.50", " ", "|", " ",
                "silence_duration:", " ", "3">>
\* a line of another subsystem
LineOther == <<"AO:", " ", "[alsa]", " ", "underrun">>
\* the token is there, the third token is not a number
LineBadNum == <<"x", " ", "silence_end:", " ", "|">>

LogLines == {LineBare, LineDetect, LineOther, LineBadNum}

RECURSIVE SeqsUpTo(_, _)
SeqsUpTo(S, n) ==
    IF n = 0 THEN {<<>>}
    ELSE LET shorter == SeqsUpTo(S, n - 1)
         IN  shorter \cup {Append(s, e) : s \in {t \in shorter : Len(t) = n - 1}, e \in S}

\* str.split(): the words of the text, separators removed
split(text) == SelectSeq(text, LAMBDA w : w # " ")

InSeq(e, s) == \E i \in 1..Len(s) : s[i] = e

\* float(tok): the number in hundredths, or ValueError
IsNumeric(tok) == tok \in {"12.50", "12.5", "3"}
float(tok) ==
    CASE tok = "12.50" -> 1250
      [] tok = "12.5" -> 1250
      [] tok = "3" -> 300
      [] OTHER -> NoPos

\* check(evt): toks[2] is the third word
check(text) ==
    LET toks == split(text)
    IN  IF InSeq("silence_end:", toks)
        THEN IF Len(toks) < 3
             THEN [kind |-> "raise", exc |-> "IndexError", val |-> NoPos]
             ELSE IF IsNumeric(toks[3])
                  THEN [kind |-> "return", exc |-> "", val |-> float(toks[3])]
                  ELSE [kind |-> "raise", exc |-> "ValueError", val |-> NoPos]
        ELSE [kind |-> "return", exc |-> "", val |-> NoPos]

Pending == [kind |-> "pending", exc |-> "", val |-> NoPos]

\* what the wait makes of one delivered event: a value ends the wait, None
\* keeps it waiting, an error of check is re-raised to the waiter
wait_for_event(text) ==
    LET rv == check(text)
    IN  IF rv.kind = "return" /\ rv.val = NoPos THEN Pending ELSE rv

\* the wait at the end of the log stream: the type mismatch that the
\* except clause of skip_silence is written for
wait_at_stream_end == [kind |-> "raise", exc |-> "TypeError", val |-> NoPos]

(***************************************************************************)
(* The byte source read by reader                                          *)
(***************************************************************************)
\* a block size of 1024*1000
BlockSize_decimal == 1024 * 1000

\* 1024*1024, the size passed to file.read
BlockSize == 1024 * 1024

\* file.read(size) at position pos of a source of n bytes
read(pos, n, size) == [off |-> pos, len |-> Min(size, n - pos)]

MiB == 2^20
SourceSizes == {k * MiB + r : k \in 0..MaxBlocks, r \in {0, 1, MiB - 1}}

(***************************************************************************)
(* HTTP responses (requests)                                               *)
(***************************************************************************)
Statuses == {200, 201, 300, 400, 401, 429, 500}

NoBody == [empty |-> TRUE]
TokenBody == [access_token |-> "tok", expires_in |-> 5000, token_type |-> "bearer"]
ErrorBody == [error |-> "Bad Request", message |-> "Invalid input"]
ErrorBodyNoMessage == [error |-> "Bad Request"]

Return(body) == [kind |-> "return", exc |-> "", body |-> body]
Raise(e) == [kind |-> "raise", exc |-> e, body |-> NoBody]

\* Response.raise_for_status(): HTTPError for a client or server error status
raise_for_status(status) == 400 <= status /\ status < 600

\* Response.json(): the parsed body, or an error when the body is not JSON
json(response) ==
    IF response.isJson THEN Return(response.body) ELSE Raise("JSONDecodeError")

TOKEN_URL == "https://id.twitch.tv/oauth2/token"

\* get_access_token without the call of raise_for_status
get_access_token_unchecked(client_id, client_secret, response) ==
    [sent |-> << [method |-> "POST", url |-> TOKEN_URL,
                  body |-> [client_id |-> client_id,
                            client_secret |-> client_secret,
                            grant_type |-> "client_credentials"]] >>,
     result |-> json(response)]

\* twitch.py: get_access_token(client_id, client_secret)
get_access_token(client_id, client_secret, response) ==
    [sent |-> << [method |-> "POST", url |-> TOKEN_URL,
                  body |-> [client_id |-> client_id,
                            client_secret |-> client_secret,
                            grant_type |-> "client_credentials"]] >>,
     result |-> IF raise_for_status(response.status)
                THEN Raise("HTTPError")
                ELSE json(response)]

(***************************************************************************)
(* State                                                                   *)
(***************************************************************************)
VARIABLES
    variant,        \* which script runs
    env,            \* names set in the environment (.env file included)
    pc,             \* position of the control thread in __main__
    exc,            \* the exception that ended the control thread, "" if none
    authStatus,     \* status the token endpoint answers with
    online,         \* whether the channel is live
    KEYS,           \* the token response held by the run
    STREAM,         \* quality labels of the resolved stream mapping
    net,            \* requests sent by the run, in order
    opts,           \* player options applied by the configuration
    playerCreated,  \* an mpv.MPV handle exists
    playIssued,     \* PLAYER.play was called
    playbackEnded,  \* the player reported the end of the file
    released,       \* number of times the player handle was released
    mpv,            \* properties of the player process
    tp,             \* attributes of the TwitchPlayer object ("class" variant)
    registered,     \* the stream and the callbacks registered with the player
    cmds,           \* commands the control thread issued to the player
    logInput,       \* the whole log-line stream of the run
    log,            \* log lines the player has still to emit
    logEnded,       \* the log stream has ended
    waitRes,        \* outcome of the pending wait_for_event
    seen,           \* log lines handed to check
    srcSize,        \* bytes in the stream source
    eofAsks,        \* reads the player will still ask for at end of stream
    loops,          \* times the player gets to open the source again
    keyInput,       \* the keys the user presses during the run, in order
    keysLeft,       \* the keys still to be pressed
    filePos,        \* read position of the open stream handle
    rd,             \* state of the reader generator
    rdBlocks,       \* blocks handed to the player, in order
    handlesOpen,    \* stream handles open for reading
    eofReads,       \* reads performed after a zero-length read
    reopens,        \* times the player opened the source again
    qPresses,       \* presses of q so far
    sKey,           \* what each press of s did, in order
    out,            \* lines printed by the script
    api             \* last call of an API helper and its outcome

mainVars == <<pc, exc, KEYS, STREAM, net, opts, playerCreated, playIssued, released, cmds>>
playerVars == <<mpv, tp, registered>>
logVars == <<log, logEnded, waitRes, seen>>
readerVars == <<filePos, rd, rdBlocks, handlesOpen, eofReads, reopens>>
inputVars == <<variant, env, authStatus, online, srcSize, eofAsks, loops, logInput, keyInput>>
vars == <<variant, env, pc, exc, authStatus, online, KEYS, STREAM, net, opts, playerCreated,
          playIssued, playbackEnded, released, mpv, tp, registered, cmds, logInput, log, logEnded, waitRes,
          seen, srcSize, eofAsks, loops, keyInput, keysLeft, filePos, rd, rdBlocks, handlesOpen, eofReads, reopens, qPresses, keysLeft, sKey, out, api>>

SILENCEDETECT == "lavfi=[silencedetect=n=-20dB:d=1]"

\* the player as mpv.MPV(...) leaves it
MpvInit == [loglevel |-> "default", af |-> "", speed |-> 1, time_pos |-> NoPos]
\* TwitchPlayer.__init__: audio_filter, speed and time_pos start as None
TwitchPlayerInit == [audio_filter |-> "None", speed |-> NoPos, time_pos |-> NoPos]

ApiIdle == [fn |-> "none"]

\* the quality labels of a live channel's stream mapping
Qualities == {"best", "worst", "720p"}

\* a registration that registers nothing
Registrations_none(v) == {}

\* @PLAYER.python_stream("streamlink-cli"), @PLAYER.property_observer("time-pos"),
\* @PLAYER.on_key_press("q"), @PLAYER.on_key_press("s"): the decorators of the
\* module-level functions register them with the player; in
\* twitch_mpv_player.py the decorators are taken from the class MPV and no
\* player object is involved
Registrations(v) ==
    IF v \in {"cli", "root", "plain"} THEN {"python_stream", "time-pos", "q", "s"} ELSE {}

\* what every start has in common
InitState(sizes, logs, envs, asks, reopenings, presses) ==
    /\ env \in envs
    /\ authStatus \in {200, 401}
    /\ online \in BOOLEAN
    /\ srcSize \in sizes
    /\ eofAsks \in asks
    /\ loops \in reopenings
    /\ keyInput \in presses
    /\ keysLeft = keyInput
    /\ logInput \in logs
    /\ log = logInput
    /\ exc = ""
    /\ KEYS = NoBody
    /\ net = <<>>
    /\ opts = {}
    /\ playIssued = FALSE
    /\ playbackEnded = FALSE
    /\ released = 0
    /\ mpv = MpvInit
    /\ tp = TwitchPlayerInit
    /\ cmds = <<>>
    /\ logEnded = FALSE
    /\ waitRes = Pending
    /\ seen = <<>>
    /\ filePos = 0
    /\ rd = "unstarted"
    /\ rdBlocks = <<>>
    /\ handlesOpen = 0
    /\ eofReads = 0
    /\ reopens = 0
    /\ qPresses = 0
    /\ sKey = <<>>
    /\ out = <<>>
    /\ api = ApiIdle

\* the state when the script starts to run; in streamlink_cli.py PLAYER is
\* created and the decorators are applied at module level before __main__, in
\* the streamlink-cli.py scripts after the streams are resolved, in
\* twitch_mpv_player.py the player is created inside __main__
InitRun(sizes, logs, envs, asks, reopenings, presses) ==
    /\ variant \in Scripts
    /\ InitState(sizes, logs, envs, asks, reopenings, presses)
    /\ pc = IF variant \in {"cli", "class", "twitch"} THEN "auth" ELSE "resolve"
    /\ STREAM = {}
    /\ playerCreated = (variant = "cli")
    /\ registered = IF variant = "cli" THEN Registrations(variant) ELSE {}

\* twitch_mpv_player.py from player = TwitchPlayer() on, the way the docstring
\* of the class tells its callers to use it: the stream object is there
InitUsage(sizes, logs, envs, asks, reopenings, presses) ==
    /\ variant = "class"
    /\ InitState(sizes, logs, envs, asks, reopenings, presses)
    /\ online
    /\ pc = "configure"
    /\ STREAM = Qualities
    /\ playerCreated = FALSE
    /\ registered = {}

(***************************************************************************)
(* The control thread: __main__                                            *)
(***************************************************************************)
CLIENT_ID == "cid"
CLIENT_SECRET == "secret"

EnvNames == {"CLIENT_ID", "CLIENT_SECRET", "STREAMER"}
EnvValue(name) ==
    CASE name = "CLIENT_ID" -> CLIENT_ID
      [] name = "CLIENT_SECRET" -> CLIENT_SECRET
      [] name = "STREAMER" -> STREAMER

\* os.getenv(name): the value, or None for a name that is not set; the
\* f-string around it turns None into the text "None"
getenv(e, name) == IF name \in e THEN EnvValue(name) ELSE "None"

\* CONFIG = {"CLIENT_SECRET": f"{os.getenv('CLIENT_SECRET')}", ...}
CONFIG(e) == [n \in EnvNames |-> getenv(e, n)]

TokenResponse(status) ==
    [status |-> status, isJson |-> TRUE,
     body |-> IF status = 200 THEN TokenBody ELSE ErrorBody]

Alive == pc \notin {"done", "crashed"}

\* a header value with another scheme
Bearer_oauth(token) == "OAuth " \o token

\* f"Bearer {token}": the value of the Authorization header
Bearer(token) == "Bearer " \o token

\* the names twitch_helper.py binds at module level
ModuleGlobals == {"requests", "BASE_URL", "TWITCH_CLIENT_ID", "TWITCH_ACCESS_TOKEN",
                  "TwitchAPISession"}

NoSelf == [empty |-> TRUE]

\* TwitchAPISession.__init__(client_id, access_token), run where the names in
\* globals are bound: the right-hand side of self.oauth_token = oauth_token is
\* neither a parameter nor a local, so it is looked up among the globals
TwitchAPISession(client_id, access_token, globals) ==
    IF "oauth_token" \notin globals
    THEN [kind |-> "raise", exc |-> "NameError", self |-> NoSelf]
    ELSE [kind |-> "return", exc |-> "",
          self |-> [client_id |-> client_id, access_token |-> access_token,
                    oauth_token |-> "oauth_token",
                    headers |-> [ClientID |-> client_id,
                                 Authorization |-> Bearer(access_token)]]]

\* streamlink_cli.py, twitch.py: KEYS = get_access_token(...)
\* twitch_mpv_player.py: TwitchAPISession(...), whose __init__ reads the
\* undefined name oauth_token
MainAuth ==
    /\ pc = "auth"
    /\ IF variant = "class"
       THEN LET r == TwitchAPISession(getenv(env, "CLIENT_ID"), getenv(env, "CLIENT_SECRET"),
                                      ModuleGlobals)
            IN  /\ pc' = IF r.kind = "raise" THEN "crashed" ELSE "resolve"
                /\ exc' = r.exc
                /\ UNCHANGED <<KEYS, net>>
       ELSE LET r == get_access_token(CONFIG(env).CLIENT_ID, CONFIG(env).CLIENT_SECRET,
                                      TokenResponse(authStatus))
            IN  /\ net' = net \o r.sent
                /\ IF r.result.kind = "raise"
                   THEN pc' = "crashed" /\ exc' = r.result.exc /\ KEYS' = KEYS
                   ELSE /\ pc' = IF variant = "twitch" THEN "streams" ELSE "resolve"
                        /\ exc' = exc /\ KEYS' = r.result.body
    /\ UNCHANGED <<STREAM, opts, playerCreated, playIssued, released, cmds>>
    /\ UNCHANGED <<playerVars, logVars, readerVars, inputVars, playbackEnded, qPresses, keysLeft, sKey, out, api>>

\* an error that is dropped where it occurs
uncaught_ignored(at) == at

\* an error that no try statement of the script encloses ends the script
uncaught(at) == "crashed"

\* a header that carries a fixed credential
twitch_api_header_fixed(keys) == "OAuth <REDACTED>"

\* streamlink_cli.py: f"OAuth {KEYS['access_token']}"
twitch_api_header(keys) == "OAuth " \o keys.access_token

\* SESSION = Streamlink(); set_option(...); STREAM = SESSION.streams(url)
MainResolve ==
    /\ pc = "resolve"
    /\ \E fails \in BOOLEAN :
          IF fails
          THEN pc' = uncaught(pc) /\ exc' = "PluginError" /\ STREAM' = STREAM
          ELSE pc' = "configure" /\ exc' = exc /\ STREAM' = IF online THEN Qualities ELSE {}
    /\ net' = Append(net, [method |-> "RESOLVE",
                           url |-> "https://www.twitch.tv/"
                                       \o (IF variant = "cli" THEN CONFIG(env).STREAMER
                                           ELSE "<REDACTED>"),
                           header |-> IF variant = "cli"
                                      THEN twitch_api_header(KEYS)
                                      ELSE "OAuth <REDACTED>"])
    /\ UNCHANGED <<KEYS, opts, playerCreated, playIssued, released, cmds>>
    /\ UNCHANGED <<playerVars, logVars, readerVars, inputVars, playbackEnded, qPresses, keysLeft, sKey, out, api>>

\* a configuration that assigns no option
Config_unset(v) == {}

\* the option assignments that precede play
Config(v) ==
    {<<"loop_playlist", "inf">>, <<"sid", "auto">>, <<"hwaccel", "auto">>,
     <<"stop-screensaver", "yes">>}
    \cup (CASE v = "root" -> {<<"fullscreen", "no">>, <<"vo", "gpu,">>, <<"ao", "pulse,">>}
            [] v = "class" -> {<<"fullscreen", "False">>, <<"vo", "gpu,opengl">>, <<"ao", "alsa">>}
            [] OTHER -> {<<"fullscreen", "False">>, <<"vo", "gpu,">>, <<"ao", "alsa,">>})

\* mpv.MPV(...) where the script creates the player here, then the option
\* assignments, which the player may reject, then the decorators that
\* register the stream and the callbacks
MainConfigure ==
    /\ pc = "configure"
    /\ playerCreated' = TRUE
    /\ \E fails \in BOOLEAN :
          IF fails
          THEN pc' = uncaught(pc) /\ exc' = "AttributeError" /\ opts' = opts
               /\ registered' = registered
          ELSE pc' = "play" /\ exc' = exc /\ opts' = Config(variant)
               /\ registered' = registered \cup Registrations(variant)
    /\ UNCHANGED <<KEYS, STREAM, net, playIssued, released, cmds>>
    /\ UNCHANGED <<mpv, tp, logVars, readerVars, inputVars, playbackEnded, qPresses, keysLeft, sKey, out, api>>

\* PLAYER.play("python://streamlink-cli"); twitch_mpv_player.py calls
\* player.reader() instead, which only creates a generator object
MainPlay ==
    /\ pc = "play"
    /\ IF variant = "class"
       THEN UNCHANGED <<playIssued, cmds>>
       ELSE playIssued' = TRUE /\ cmds' = Append(cmds, "play")
    /\ pc' = IF variant = "plain" THEN "wait" ELSE "skip"
    /\ UNCHANGED <<exc, KEYS, STREAM, net, opts, playerCreated, released>>
    /\ UNCHANGED <<playerVars, logVars, readerVars, inputVars, playbackEnded, qPresses, keysLeft, sKey, out, api>>

(***************************************************************************)
(* skip_silence                                                            *)
(***************************************************************************)
Loglevel(v) == CASE v = "root" -> "debug" [] v = "plain" -> "warn" [] OTHER -> "error"

\* set_loglevel, af, speed = 100, then the wait is entered
skip_silence_arm ==
    /\ pc = "skip"
    /\ IF variant = "class"
       THEN /\ mpv' = [mpv EXCEPT !.loglevel = Loglevel(variant)]
            /\ tp' = [tp EXCEPT !.audio_filter = SILENCEDETECT, !.speed = 100]
            /\ cmds' = cmds \o <<"set_loglevel", "wait_for_event">>
       ELSE /\ mpv' = [mpv EXCEPT !.loglevel = Loglevel(variant),
                                  !.af = SILENCEDETECT, !.speed = 100]
            /\ tp' = tp
            /\ cmds' = cmds \o <<"set_loglevel", "af=silencedetect", "speed=100",
                                 "wait_for_event">>
    /\ waitRes' = Pending
    /\ seen' = <<>>
    /\ pc' = "skip_wait"
    /\ UNCHANGED <<exc, KEYS, STREAM, net, opts, playerCreated, playIssued, released, registered>>
    /\ UNCHANGED <<log, logEnded, readerVars, inputVars, playbackEnded, qPresses, keysLeft, sKey, out, api>>

\* a try statement that names another error class
caught_ValueError(e) == e = "ValueError"

\* except TypeError: the errors the try statement around the wait swallows
caught(e) == e = "TypeError"

\* the filter cleared before the speed is set back
restore_filter_first(matched) ==
    (IF matched THEN <<"seek">> ELSE <<>>) \o <<"af=", "speed=1">>

\* PLAYER.time_pos = <value> when the wait returned one, then
\* PLAYER.speed = 1 and PLAYER.af = ""
restore(matched) ==
    (IF matched THEN <<"seek">> ELSE <<>>) \o <<"speed=1", "af=">>

\* the wait returned or raised: the assignment of time_pos, the except
\* clause, and the two assignments that restore speed and filter
skip_silence_resume ==
    /\ pc = "skip_wait"
    /\ waitRes # Pending \/ logEnded
    /\ LET r == IF waitRes = Pending THEN wait_at_stream_end ELSE waitRes
           restored == r.kind = "return" \/ caught(r.exc)
       IN  /\ IF ~restored
              THEN /\ pc' = "crashed" /\ exc' = r.exc
                   /\ UNCHANGED <<mpv, tp, cmds, out>>
              ELSE /\ pc' = "wait" /\ exc' = exc
                   /\ IF variant = "class"
                      THEN /\ tp' = [audio_filter |-> "", speed |-> 1,
                                     time_pos |-> IF r.kind = "return" THEN r.val
                                                  ELSE tp.time_pos]
                           /\ UNCHANGED <<mpv, cmds>>
                      ELSE /\ mpv' = [mpv EXCEPT !.af = "", !.speed = 1,
                                         !.time_pos = IF r.kind = "return" THEN r.val
                                                      ELSE mpv.time_pos]
                           /\ cmds' = cmds \o restore(r.kind = "return")
                           /\ tp' = tp
                   /\ out' = IF variant = "root" /\ r.kind = "raise"
                             THEN Append(out, r.exc) ELSE out
    /\ UNCHANGED <<KEYS, STREAM, net, opts, playerCreated, playIssued, released, registered>>
    /\ UNCHANGED <<logVars, readerVars, inputVars, playbackEnded, qPresses, keysLeft, sKey, api>>

\* the player emits its next log line; a pending wait hands it to check
LogEvent ==
    /\ Alive /\ playIssued
    /\ log # <<>>
    /\ log' = Tail(log)
    /\ IF pc = "skip_wait" /\ waitRes = Pending
       THEN /\ seen' = Append(seen, Head(log))
            /\ waitRes' = wait_for_event(Head(log))
       ELSE UNCHANGED <<seen, waitRes>>
    /\ UNCHANGED <<mainVars, playerVars, logEnded, readerVars, inputVars, playbackEnded,
                   qPresses, keysLeft, sKey, out, api>>

\* the log stream ends
LogEnd ==
    /\ Alive /\ playIssued
    /\ log = <<>> /\ ~logEnded
    /\ logEnded' = TRUE
    /\ UNCHANGED <<mainVars, playerVars, log, waitRes, seen, readerVars, inputVars,
                   playbackEnded, qPresses, keysLeft, sKey, out, api>>

(***************************************************************************)
(* reader: the generator behind python://streamlink-cli                    *)
(***************************************************************************)
EofDelivered == \E i \in 1..Len(rdBlocks) : rdBlocks[i].len = 0

\* one resumption of the generator by the player: the first one looks the
\* quality up and opens the stream, every one reads a block and yields it
reader(quality) ==
    /\ Alive /\ playIssued
    /\ "python_stream" \in registered
    /\ rd \in {"unstarted", "suspended"}
    /\ EofDelivered => eofReads < eofAsks
    /\ IF rd = "unstarted" /\ quality \notin STREAM
       THEN /\ out' = IF variant \in {"cli", "class"}
                      THEN Append(out, CONFIG(env).STREAMER \o " is not live") ELSE out
            /\ rd' = "raised"
            /\ playbackEnded' = TRUE
            /\ UNCHANGED <<filePos, rdBlocks, handlesOpen, eofReads, reopens>>
       ELSE LET block == read(filePos, srcSize, BlockSize)
            IN  /\ rdBlocks' = Append(rdBlocks, block)
                /\ filePos' = filePos + block.len
                /\ handlesOpen' = IF rd = "unstarted" THEN handlesOpen + 1 ELSE handlesOpen
                /\ eofReads' = IF EofDelivered THEN eofReads + 1 ELSE eofReads
                /\ rd' = "suspended"
                /\ UNCHANGED <<out, playbackEnded, reopens>>
    /\ UNCHANGED <<mainVars, playerVars, logVars, inputVars, qPresses, keysLeft, sKey, api>>

\* a block that leaves the handle open when it is left
without_exit(h) == h

\* with STREAM[quality].open() as file: leaving the block closes the handle
with_exit(h) == h - 1

\* the player closes the stream after the end of the file: the generator is
\* dropped at its yield and the with block closes the handle
ReaderClose ==
    /\ Alive
    /\ rd = "suspended" /\ EofDelivered
    /\ rd' = "closed"
    /\ handlesOpen' = with_exit(handlesOpen)
    /\ playbackEnded' = TRUE
    /\ UNCHANGED <<filePos, rdBlocks, eofReads, reopens>>
    /\ UNCHANGED <<mainVars, playerVars, logVars, inputVars, qPresses, keysLeft, sKey, out, api>>

\* loop_playlist = "inf": after the end of the file the player opens
\* python://streamlink-cli again, which calls reader anew; the new generator
\* opens its own handle at its first resumption
ReaderReopen ==
    /\ Alive /\ playIssued
    /\ <<"loop_playlist", "inf">> \in opts
    /\ rd = "closed"
    /\ reopens < loops
    /\ reopens' = reopens + 1
    /\ rd' = "unstarted"
    /\ filePos' = 0
    /\ rdBlocks' = <<>>
    /\ UNCHANGED <<handlesOpen, eofReads>>
    /\ UNCHANGED <<mainVars, playerVars, logVars, inputVars, playbackEnded, qPresses, keysLeft, sKey, out, api>>

(***************************************************************************)
(* Key bindings and teardown                                               *)
(***************************************************************************)
\* a handler that prints nothing
q_binding_silent(o) == o

\* q_binding: print("THERE IS NO ESCAPE")
q_binding(o) == Append(o, "THERE IS NO ESCAPE")

\* q is pressed: on_key_press binds the handler in place of the player's
\* default binding of the key, so the press runs the handler only
PressQ ==
    /\ Alive /\ playIssued
    /\ "q" \in registered
    /\ keysLeft # <<>> /\ Head(keysLeft) = "q"
    /\ keysLeft' = Tail(keysLeft)
    /\ qPresses' = qPresses + 1
    /\ out' = q_binding(out)
    /\ UNCHANGED <<mainVars, playerVars, logVars, readerVars, inputVars, playbackEnded, sKey, api>>

\* a press of s: the frame is captured and written, or there is no frame to
\* capture, or the file cannot be written
SKeys == {"s", "s, no frame", "s, no write"}
Keys == {"q"} \cup SKeys

\* s_binding: img = PLAYER.screenshot_raw(); img.save("screenshot.png");
\* either call may raise
s_binding(captured, written) ==
    IF ~captured THEN "capture failed"
    ELSE IF ~written THEN "save failed"
    ELSE "screenshot.png"

\* s is pressed: the handler runs on the player's event thread, which
\* reports an error of a handler and goes on with the next event
PressS ==
    /\ Alive /\ playIssued
    /\ "s" \in registered
    /\ keysLeft # <<>> /\ Head(keysLeft) \in SKeys
    /\ keysLeft' = Tail(keysLeft)
    /\ sKey' = Append(sKey, s_binding(Head(keysLeft) # "s, no frame",
                                      Head(keysLeft) # "s, no write"))
    /\ UNCHANGED <<mainVars, playerVars, logVars, readerVars, inputVars, playbackEnded,
                   qPresses, out, api>>

\* PLAYER.wait_for_playback() returns when the player reported the end
MainWait ==
    /\ pc = "wait"
    /\ playbackEnded
    /\ pc' = "del"
    /\ cmds' = Append(cmds, "wait_for_playback")
    /\ UNCHANGED <<exc, KEYS, STREAM, net, opts, playerCreated, playIssued, released>>
    /\ UNCHANGED <<playerVars, logVars, readerVars, inputVars, playbackEnded, qPresses, keysLeft, sKey, out, api>>

\* del PLAYER
MainDel ==
    /\ pc = "del"
    /\ released' = released + 1
    /\ pc' = "done"
    /\ cmds' = Append(cmds, "del")
    /\ UNCHANGED <<exc, KEYS, STREAM, net, opts, playerCreated, playIssued>>
    /\ UNCHANGED <<playerVars, logVars, readerVars, inputVars, playbackEnded, qPresses, keysLeft, sKey, out, api>>

(***************************************************************************)
(* Properties of the playback scripts                                      *)
(***************************************************************************)
SkipCalled == InSeq("wait_for_event", cmds)
HasToken(text) == InSeq("silence_end:", split(text))
NoTokenSeen == \A i \in 1..Len(seen) : ~HasToken(seen[i])
NotLive == STREAMER \o " is not live"
Terminated == pc = "done"

\* C1: when the log-line stream is exactly the one line "silence_end: 12.50",
\* skip_silence returns normally with the position set to 12.5, the speed
\* back at 1 and the audio filter cleared.
C1_SilenceEndSeeks ==
    (logInput = <<LineBare>> /\ seen = <<LineBare>> /\ pc # "skip_wait")
        => (pc # "crashed" /\ mpv.time_pos = 1250 /\ mpv.speed = 1 /\ mpv.af = "")

C3_BlockSequence ==
    /\ \A i \in 1..Len(rdBlocks) :
          /\ rdBlocks[i].off = Min((i - 1) * MiB, srcSize)
          /\ rdBlocks[i].len = IF i <= srcSize \div MiB THEN MiB
                               ELSE IF i = srcSize \div MiB + 1 THEN srcSize % MiB
                               ELSE 0
    /\ EofDelivered => filePos = srcSize

C3_Witness ==
    /\ srcSize = 2 * MiB + 1
    /\ EofDelivered
    /\ Len(rdBlocks) >= 4
    /\ rdBlocks[3].len = 1

\* C4: once a read returned zero bytes the producer loop performs no further
\* read on the handle.
C4_NoReadAfterEof == eofReads = 0

\* C12: at most one stream handle is open for reading in every state of a
\* run, also after the player opened the source again at the end of the
\* stream.
C12_OneHandleOpen == handlesOpen <= 1

C12_Witness == reopens = 1 /\ rd = "suspended" /\ handlesOpen = 1 /\ filePos > 0

SetupSteps == {"auth", "resolve", "configure"}

\* C13: a failure of the token exchange, of the stream resolution or of the
\* player configuration ends the run at that step: the step that fails leaves
\* the run aborted, and from an aborted run that has not played nothing more
\* is requested, resolved, configured or played.
C13_SetupFailureAborts ==
    /\ [][(pc \in SetupSteps /\ exc' # "") => (pc' = "crashed" /\ ~playIssued')]_vars
    /\ [][(pc = "crashed" /\ ~playIssued)
            => UNCHANGED <<pc, playIssued, net, KEYS, STREAM, opts, cmds, released>>]_vars
    /\ []((exc # "" /\ ~playIssued) => pc = "crashed")

C13_Witness ==
    /\ variant = "cli" /\ pc = "crashed" /\ exc = "PluginError"
    /\ Len(net) = 2 /\ opts = {} /\ ~playIssued /\ cmds = <<>>

\* the scripts that read their settings from the environment
ReadsEnvironment == variant \in {"cli", "twitch", "class"}

\* C14: when one of CLIENT_ID, CLIENT_SECRET, STREAMER is not set, the run
\* sends no request at all (token endpoint, metadata API, stream resolver)
\* and ends in an error.
C14_MissingConfigFailsAtStartup ==
    (ReadsEnvironment /\ env # EnvNames) => (net = <<>> /\ pc \in {"auth", "crashed"})

\* a line that carries the token but not a number as its third word
Malformed(text) ==
    /\ HasToken(text)
    /\ Len(split(text)) < 3 \/ ~IsNumeric(split(text)[3])

\* C15: while every line handed to the matcher so far is malformed or carries
\* no token, no error has ended the run, no position was set, and once
\* skip_silence is left the speed is 1 again.
C15_MalformedLineIgnored ==
    (/\ SkipCalled
     /\ (\E i \in 1..Len(seen) : Malformed(seen[i]))
     /\ (\A j \in 1..Len(seen) : Malformed(seen[j]) \/ ~HasToken(seen[j])))
        => /\ pc # "crashed" /\ exc = ""
           /\ mpv.time_pos = NoPos /\ tp.time_pos = NoPos
           /\ pc # "skip_wait" => mpv.speed = 1

\* C17: a run that created the player and started playback has released the
\* handle when it is over, whether it ended normally or by an error raised
\* after playback started.
C17_ReleasedAtEveryEnd ==
    (playerCreated /\ playIssued /\ ~Alive) => released = 1

\* the errors that check raises on one log line
MatcherErrors == {"IndexError", "ValueError"}

\* C18: a failure inside one callback event does not end the session: a press
\* of s, failed or not, leaves the control thread and the playback where they
\* are, and no run that started playback is ended by an error of the log-line
\* matcher.
C18_CallbackFailureContained ==
    /\ [][sKey' # sKey => UNCHANGED <<pc, exc, playbackEnded, released>>]_vars
    /\ []((playIssued /\ pc = "crashed") => exc \notin MatcherErrors)

\* C5: when the channel is offline (streamlink_cli.py) and the producer has
\* met the missing quality label, "<channel> is not live" is printed, no
\* lookup error leaves the producer, and the player was never instructed to
\* start playback.
C5_OfflineNotLive ==
    (variant = "cli" /\ ~online /\ rd # "unstarted")
        => (InSeq(NotLive, out) /\ rd # "raised" /\ ~playIssued)

Posts == {i \in 1..Len(net) : net[i].method = "POST"}

\* C11: within one run the token endpoint is asked at most once; the token
\* held by the run never changes once it is there; every metadata GET of
\* twitch.py and the resolver header of streamlink_cli.py come after that one
\* request and carry exactly the token held.
C11_TokenOnceAndReused ==
    /\ [](Cardinality(Posts) <= 1)
    /\ [][KEYS # NoBody => KEYS' = KEYS]_vars
    /\ [](\A i \in 1..Len(net) :
            /\ net[i].method = "GET" =>
                  /\ \E j \in Posts : j < i
                  /\ "access_token" \in DOMAIN KEYS
                  /\ net[i].headers.Authorization = "Bearer " \o KEYS.access_token
            /\ (variant = "cli" /\ net[i].method = "RESOLVE") =>
                  /\ \E j \in Posts : j < i
                  /\ "access_token" \in DOMAIN KEYS
                  /\ net[i].header = "OAuth " \o KEYS.access_token)

C11_Witness ==
    /\ variant = "cli" /\ pc = "done"
    /\ Len(net) = 2 /\ net[1].method = "POST"
    /\ net[2].method = "RESOLVE" /\ net[2].header = "OAuth tok"

(***************************************************************************)
(* The API helpers: twitch.py and twitch_helper.py                         *)
(***************************************************************************)
MaxData == 2        \* longest data list of a response

EntryFull == [game_name |-> "G", title |-> "T", started_at |-> "2023-04-01T00:00:00Z"]
EntryNoStart == [game_name |-> "G", title |-> "T"]
EntryNoGame == [title |-> "T", started_at |-> "2023-04-01T00:00:00Z"]
EntryNoTitle == [game_name |-> "G"]
Entries == {EntryFull, EntryNoStart, EntryNoGame, EntryNoTitle}

Arrays == {[data |-> d] : d \in SeqsUpTo(Entries, MaxData)} \cup {ErrorBody}

Responses ==
    {[status |-> s, isJson |-> TRUE, body |-> b] :
        s \in Statuses, b \in {TokenBody, ErrorBody, ErrorBodyNoMessage}}
    \cup {[status |-> s, isJson |-> FALSE, body |-> NoBody] : s \in Statuses}

Printed(text) == [kind |-> "print", exc |-> "", text |-> text]
Raised(e) == [kind |-> "raise", exc |-> e, text |-> ""]

\* print_now_playing with the line that reads started_at in force
print_now_playing_started_at(array) ==
    IF "data" \notin DOMAIN array THEN Raised("KeyError")
    ELSE IF Len(array.data) = 1
         THEN LET e == array.data[1]
              IN  IF "game_name" \notin DOMAIN e \/ "title" \notin DOMAIN e
                     \/ "started_at" \notin DOMAIN e
                  THEN Raised("KeyError")
                  ELSE Printed(STREAMER \o " - [" \o e.game_name \o "] : " \o e.title)
         ELSE Printed(STREAMER \o " is not live")

\* twitch.py: the body of print_now_playing, which reads the module's CONFIG
print_now_playing_in(config, array) ==
    IF "data" \notin DOMAIN array THEN Raised("KeyError")
    ELSE IF Len(array.data) = 1
         THEN LET e == array.data[1]
              IN  IF "game_name" \notin DOMAIN e \/ "title" \notin DOMAIN e
                  THEN Raised("KeyError")
                  ELSE Printed(config.STREAMER \o " - [" \o e.game_name \o "] : " \o e.title)
         ELSE Printed(config.STREAMER \o " is not live")

\* twitch.py: print_now_playing(array) with every name set
print_now_playing(array) == print_now_playing_in(CONFIG(EnvNames), array)

\* twitch_mpv_player.py: print_now_playing(array, config_data)
player_print_now_playing(array, config_data) ==
    IF "data" \notin DOMAIN array THEN Raised("KeyError")
    ELSE IF Len(array.data) = 1
         THEN LET e == array.data[1]
              IN  IF "game_name" \notin DOMAIN e \/ "title" \notin DOMAIN e
                  THEN Raised("KeyError")
                  ELSE Printed(config_data.STREAMER \o " - [" \o e.game_name \o "]: " \o e.title)
         ELSE Printed(config_data.STREAMER \o " is not live")

\* str.strip() of a text kept as a sequence of parts: blank parts at both
\* ends are removed
RECURSIVE lstrip(_)
lstrip(t) == IF t # <<>> /\ Head(t) \in {"", " "} THEN lstrip(Tail(t)) ELSE t
RECURSIVE rstrip(_)
rstrip(t) ==
    IF t # <<>> /\ t[Len(t)] \in {"", " "} THEN rstrip(SubSeq(t, 1, Len(t) - 1)) ELSE t
strip(t) == rstrip(lstrip(t))

\* twitch.py: the body of api_request, which reads the module's CONFIG
api_request_in(config, keys, url, query, response) ==
    IF "access_token" \notin DOMAIN keys
    THEN [sent |-> <<>>, result |-> Raise("KeyError")]
    ELSE [sent |-> << [method |-> "GET", url |-> strip(<<url, "?", query>>),
                       headers |-> [ClientID |-> config.CLIENT_ID,
                                    Authorization |-> Bearer(keys.access_token)]] >>,
          result |-> IF raise_for_status(response.status)
                     THEN Raise("HTTPError")
                     ELSE json(response)]

\* twitch.py: api_request(keys, url, query) with every name set
api_request(keys, url, query, response) ==
    api_request_in(CONFIG(EnvNames), keys, url, query, response)

\* APIhelper(): the class attributes that get_streams reads
APIhelper == [user_id |-> "", user_login |-> "", game_id |-> "",
              type |-> "live", lang |-> "en", first |-> 10]

\* the characters of a text kept as a sequence of parts
RECURSIVE text(_)
text(parts) == IF parts = <<>> THEN "" ELSE Head(parts) \o text(Tail(parts))

\* APIhelper.get_streams: the query it builds, as names, "=", values and "&";
\* an empty query argument is the empty sequence
streams_query(self, query) ==
    LET q0 == IF query # <<>> THEN query
              ELSE IF self.user_id # "" THEN <<"user_id", "=", self.user_id>>
              ELSE IF self.user_login # "" THEN <<"user_login", "=", self.user_login>>
              ELSE IF self.game_id # "" THEN <<"game_id", "=", self.game_id>>
              ELSE query
    IN  q0 \o <<"&", "type", "=", self.type>>
           \o <<"&", "language", "=", self.lang>>
           \o <<"&", "first", "=", ToString(self.first)>>

\* APIhelper.get_streams(keys, query)
get_streams(config, self, keys, query, response) ==
    api_request_in(config, keys, "https://api.twitch.tv/helix/streams",
                   text(streams_query(self, query)), response)

BASE_URL == "https://api.twitch.tv/helix/"

\* TwitchAPISession.get_users(logins)
get_users(self, logins, response) ==
    [sent |-> << [method |-> "GET", via |-> "self.session", url |-> BASE_URL \o "users",
                  params |-> [login |-> logins], headers |-> self.headers] >>,
     result |-> json(response)]

\* TwitchAPISession.get_user_by_id(user_id)
get_user_by_id(self, user_id, response) ==
    [sent |-> << [method |-> "GET", via |-> "self.session", url |-> BASE_URL \o "users",
                  params |-> [id |-> user_id], headers |-> self.headers] >>,
     result |-> json(response)]

\* None
None == [none |-> TRUE]

\* TwitchAPISession.get_user_follows(user_id, direction="to", first=20, after=None)
get_user_follows(self, user_id, direction, first, after, response) ==
    [sent |-> << [method |-> "GET", via |-> "self.session", url |-> BASE_URL \o "users/follows",
                  params |-> [from_id |-> user_id, first |-> first, after |-> after,
                              direction |-> direction],
                  headers |-> self.headers] >>,
     result |-> json(response)]

\* TwitchAPISession.get_channel_followers(channel_id, first=20, after=None)
get_channel_followers(self, channel_id, first, after, response) ==
    [sent |-> << [method |-> "GET", via |-> "self.session", url |-> BASE_URL \o "users/follows",
                  params |-> [to_id |-> channel_id, first |-> first, after |-> after],
                  headers |-> self.headers] >>,
     result |-> json(response)]

\* TwitchAPISession.get_top_games(first=20, after=None)
get_top_games(self, first, after, response) ==
    [sent |-> << [method |-> "GET", via |-> "self.session", url |-> BASE_URL \o "games/top",
                  params |-> [first |-> first, after |-> after],
                  headers |-> self.headers] >>,
     result |-> json(response)]

\* TwitchAPISession.get_streams_by_game(game_id, first=20, after=None)
get_streams_by_game(self, game_id, first, after, response) ==
    [sent |-> << [method |-> "GET", via |-> "self.session", url |-> BASE_URL \o "streams",
                  params |-> [game_id |-> game_id, first |-> first, after |-> after],
                  headers |-> self.headers] >>,
     result |-> json(response)]

\* TwitchAPISession.get_user_blocks(user_id=None, first=20, after=None)
get_user_blocks(self, user_id, first, after, response) ==
    [sent |-> << [method |-> "GET", via |-> "self.session", url |-> BASE_URL \o "users/blocks",
                  params |-> [broadcaster_id |-> user_id, first |-> first, after |-> after],
                  headers |-> self.headers] >>,
     result |-> json(response)]

\* TwitchAPISession.get_user_block_list(user_id=None, first=20, after=None)
get_user_block_list(self, user_id, first, after, response) ==
    [sent |-> << [method |-> "GET", via |-> "self.session", url |-> BASE_URL \o "users/blocks",
                  params |-> [user_id |-> user_id, first |-> first, after |-> after],
                  headers |-> self.headers] >>,
     result |-> json(response)]

\* unblock_user that sends its request the way block_user does
unblock_user_direct(self, target_user_id, response) ==
    [sent |-> << [method |-> "DELETE", via |-> "requests", url |-> BASE_URL \o "users/blocks",
                  json |-> [target_user_id |-> target_user_id],
                  headers |-> [ClientID |-> self.client_id,
                               Authorization |-> Bearer(self.access_token)]] >>,
     result |-> IF response.status # 200 THEN Raise("RuntimeError") ELSE json(response)]

\* TwitchAPISession.unblock_user(target_user_id)
unblock_user(self, target_user_id, response) ==
    [sent |-> << [method |-> "DELETE", via |-> "self.session", url |-> BASE_URL \o "users/blocks",
                  json |-> [target_user_id |-> target_user_id],
                  headers |-> self.headers] >>,
     result |-> json(response)]

ClipBody == [data |-> [id |-> "abcd1234", url |-> "https://clips.twitch.tv/abcd1234"]]

\* TwitchAPISession.create_clip(video_id)
create_clip(self, video_id, response) ==
    [sent |-> << [method |-> "POST", via |-> "self.session", url |-> BASE_URL \o "/clips",
                  json |-> [broadcaster_id |-> video_id], headers |-> self.headers] >>,
     result |->
         IF response.status = 401
         THEN [kind |-> "raise", exc |-> "RuntimeError", body |-> NoBody,
               msg |-> "Invalid OAuth token"]
         ELSE LET data == json(response)
              IN  IF data.kind = "raise" THEN data
                  ELSE IF "error" \in DOMAIN data.body
                       THEN [kind |-> "raise", exc |-> "RuntimeError", body |-> NoBody,
                             msg |-> "Clip creation failed: " \o data.body.error]
                       ELSE IF "data" \notin DOMAIN data.body
                            THEN Raise("KeyError")
                            ELSE Return(<<data.body.data.id, data.body.data.url>>)]

\* raise RuntimeError(msg), raise ValueError(msg)
RaiseMsg(e, msg) == [kind |-> "raise", exc |-> e, body |-> NoBody, msg |-> msg]

\* dict.get(key, default) on the parsed body
get(body, key, default) == IF key \in DOMAIN body THEN body[key] ELSE default

\* a or b on two texts: the first one unless it is empty
or(a, b) == IF a # "" THEN a ELSE b

\* TwitchAPISession.block_user(user_login)
block_user(self, user_login, response) ==
    IF self.access_token = "" /\ self.oauth_token = ""
    THEN [sent |-> <<>>,
          result |-> RaiseMsg("ValueError",
                       "Authentication token missing. Provide access token or OAuth token.")]
    ELSE [sent |-> << [method |-> "PUT", via |-> "requests",
                       url |-> "https://api.twitch.tv/helix/users/blocks?target_user_login="
                                   \o user_login,
                       headers |-> [ClientID |-> self.client_id,
                                    Authorization |->
                                        Bearer(or(self.oauth_token, self.access_token))],
                       timeout |-> 10] >>,
          result |->
              IF response.status = 401
              THEN RaiseMsg("RuntimeError", "Unauthorized: Invalid OAuth token.")
              ELSE IF response.status # 200
                   THEN IF json(response).kind = "raise" THEN json(response)
                        ELSE RaiseMsg("RuntimeError",
                                      "Error blocking user: "
                                          \o get(json(response).body, "message", "Unknown error"))
                   ELSE json(response)]

Silent == [kind |-> "none", exc |-> "", text |-> ""]

\* "{:.2f}" of a float kept in hundredths
format_2f(value) ==
    LET cents == value % 100
    IN  ToString(value \div 100) \o "." \o (IF cents < 10 THEN "0" ELSE "") \o ToString(cents)

\* time_observer(_name, value): None makes the format raise TypeError, which
\* the except clause catches; src/streamlink-cli.py prints the caught error
time_observer(v, value) ==
    IF value # NoPos
    THEN Printed("Now playing at " \o format_2f(value) \o "s")
    ELSE IF v = "root"
         THEN Printed("unsupported format string passed to NoneType.__format__")
         ELSE Silent

\* values of time-pos the player reports: None, 0.0, 0.05, 12.5, 60.01
Positions == {NoPos, 0, 5, 1250, 6001}

\* the object the methods are exercised on: __init__ run with the name
\* oauth_token supplied to the module
TestSession ==
    TwitchAPISession("test_client_id", "test_access_token",
                     ModuleGlobals \cup {"oauth_token"}).self

\* what the streams endpoint answers for the channel
StreamsResponses(live) ==
    {[status |-> 200, isJson |-> TRUE,
      body |-> [data |-> IF live THEN <<EntryFull>> ELSE <<>>]],
     [status |-> 500, isJson |-> TRUE, body |-> ErrorBody]}

\* twitch.py: API_HELPER.user_login = CONFIG.get('STREAMER');
\* print_now_playing(API_HELPER.get_streams(KEYS))
MainNowPlaying ==
    /\ pc = "streams"
    /\ \E response \in StreamsResponses(online) :
          LET API_HELPER == [APIhelper EXCEPT !.user_login = CONFIG(env).STREAMER]
              r == get_streams(CONFIG(env), API_HELPER, KEYS, <<>>, response)
              p == IF r.result.kind = "raise" THEN Raised(r.result.exc)
                   ELSE print_now_playing_in(CONFIG(env), r.result.body)
          IN  /\ net' = net \o r.sent
              /\ IF p.kind = "raise"
                 THEN pc' = "crashed" /\ exc' = p.exc /\ out' = out
                 ELSE pc' = "printed" /\ exc' = exc /\ out' = Append(out, p.text)
    /\ UNCHANGED <<KEYS, STREAM, opts, playerCreated, playIssued, released, cmds>>
    /\ UNCHANGED <<playerVars, logVars, readerVars, inputVars, playbackEnded, qPresses, keysLeft, sKey, api>>

\* every log-line stream, a source of one byte that the player plays twice,
\* one press of q and one of s that cannot write its file
Init == InitRun({1}, SeqsUpTo(LogLines, MaxLog), {EnvNames}, {0}, {1},
                {<<"q", "s, no write">>})

\* every sequence of key presses, one log line
InitKeys == InitRun({1}, {<<LineDetect>>}, {EnvNames}, {0}, {1}, SeqsUpTo(Keys, MaxKeys))

\* every source size, every number of reads at the end and of reopenings, no
\* log line or the one line of the silence filter
InitReader == InitRun(SourceSizes, {<<>>, <<LineDetect>>}, {EnvNames},
                      0..MaxEofReads, 0..MaxReopens, {<<"s", "q">>})

\* every subset of the three names set, a source that is empty, one log line
InitStartup == InitRun({0}, {<<LineDetect>>}, SUBSET EnvNames, {0}, {1}, {<<"q", "s">>})

Next ==
    \/ MainAuth
    \/ MainNowPlaying
    \/ MainResolve
    \/ MainConfigure
    \/ MainPlay
    \/ skip_silence_arm
    \/ skip_silence_resume
    \/ LogEvent
    \/ LogEnd
    \/ reader("best")
    \/ ReaderClose
    \/ ReaderReopen
    \/ PressQ
    \/ PressS
    \/ MainWait
    \/ MainDel

Spec == Init /\ [][Next]_vars

SpecReader == InitReader /\ [][Next]_vars

SpecStartup == InitStartup /\ [][Next]_vars

SpecKeys == InitKeys /\ [][Next]_vars

\* the control thread is scheduled: once the wait can return, it does
FairSpec == Spec /\ WF_vars(skip_silence_resume)

\* every script from its start, and the class of twitch_mpv_player.py used
\* by a caller
InitPlayer ==
    \/ InitRun({1}, {<<>>, <<LineDetect>>, <<LineOther>>}, {EnvNames}, {0}, {1}, {<<"q">>, <<"s">>})
    \/ InitUsage({1}, {<<>>, <<LineDetect>>, <<LineOther>>}, {EnvNames}, {0}, {1}, {<<"q">>, <<"s">>})

SpecPlayer == InitPlayer /\ [][Next]_vars

ApiOthers == <<mainVars, playerVars, logVars, readerVars, inputVars, playbackEnded, qPresses,
               keysLeft, sKey, out>>

CallGetAccessToken ==
    /\ \E cid \in {CLIENT_ID, "None"}, response \in Responses :
          LET r == get_access_token(cid, CLIENT_SECRET, response)
          IN  api' = [fn |-> "get_access_token",
                      args |-> [client_id |-> cid, client_secret |-> CLIENT_SECRET,
                                response |-> response],
                      sent |-> r.sent, result |-> r.result]
    /\ UNCHANGED ApiOthers

CallApiRequest ==
    /\ \E keys \in {TokenBody, ErrorBody}, query \in {"", " ", "user_login=chan"},
          response \in Responses :
          LET r == api_request(keys, BASE_URL \o "streams", query, response)
          IN  api' = [fn |-> "api_request",
                      args |-> [keys |-> keys, query |-> query, response |-> response],
                      sent |-> r.sent, result |-> r.result]
    /\ UNCHANGED ApiOthers

CallPrintNowPlaying ==
    /\ \E array \in Arrays :
          api' = [fn |-> "print_now_playing", args |-> [array |-> array],
                  sent |-> <<>>, result |-> print_now_playing(array)]
    /\ UNCHANGED ApiOthers

CallPlayerPrintNowPlaying ==
    /\ \E array \in Arrays :
          api' = [fn |-> "player_print_now_playing", args |-> [array |-> array],
                  sent |-> <<>>,
                  result |-> player_print_now_playing(array, [STREAMER |-> STREAMER])]
    /\ UNCHANGED ApiOthers

CallGetUsers ==
    /\ \E logins \in {[list |-> l] : l \in {<<>>, <<"user1">>, <<"user1", "user2">>}},
          response \in Responses :
          LET r == get_users(TestSession, logins, response)
          IN  api' = [fn |-> "get_users",
                      args |-> [logins |-> logins, response |-> response],
                      sent |-> r.sent, result |-> r.result]
    /\ UNCHANGED ApiOthers

CallGetUserById ==
    /\ \E user_id \in {[str |-> "1"], [str |-> "123"], [int |-> 12345]},
          response \in Responses :
          LET r == get_user_by_id(TestSession, user_id, response)
          IN  api' = [fn |-> "get_user_by_id",
                      args |-> [user_id |-> user_id, response |-> response],
                      sent |-> r.sent, result |-> r.result]
    /\ UNCHANGED ApiOthers

\* a session object with the given two tokens
SessionWith(access_token, oauth_token) ==
    [TestSession EXCEPT !.access_token = access_token, !.oauth_token = oauth_token]

CallBlockUser ==
    /\ \E access_token \in {"", "test_access_token"}, oauth_token \in {"", "oauth_token"},
          response \in Responses :
          LET r == block_user(SessionWith(access_token, oauth_token), "user_to_block", response)
          IN  api' = [fn |-> "block_user",
                      args |-> [access_token |-> access_token, oauth_token |-> oauth_token,
                                response |-> response],
                      sent |-> r.sent, result |-> r.result]
    /\ UNCHANGED ApiOthers

\* the other query methods, each called with one id and its default arguments
QueryMethods == {"get_user_follows", "get_channel_followers", "get_top_games",
                 "get_streams_by_game", "get_user_blocks", "get_user_block_list",
                 "unblock_user"}

CallQueryMethod ==
    /\ \E fn \in QueryMethods, id \in {[str |-> "1"], [str |-> "111"]}, response \in Responses :
          LET self == TestSession
              r == CASE fn = "get_user_follows" ->
                            get_user_follows(self, id, [str |-> "to"], [int |-> 20], None, response)
                     [] fn = "get_channel_followers" ->
                            get_channel_followers(self, id, [int |-> 20], None, response)
                     [] fn = "get_top_games" ->
                            get_top_games(self, [int |-> 20], None, response)
                     [] fn = "get_streams_by_game" ->
                            get_streams_by_game(self, id, [int |-> 20], None, response)
                     [] fn = "get_user_blocks" ->
                            get_user_blocks(self, id, [int |-> 20], None, response)
                     [] fn = "get_user_block_list" ->
                            get_user_block_list(self, id, [int |-> 20], None, response)
                     [] fn = "unblock_user" ->
                            unblock_user(self, id, response)
          IN  api' = [fn |-> fn, args |-> [id |-> id, response |-> response],
                      sent |-> r.sent, result |-> r.result]
    /\ UNCHANGED ApiOthers

CallCreateClip ==
    /\ \E video_id \in {"123", "123456"},
          response \in Responses
                       \cup {[status |-> st, isJson |-> TRUE, body |-> ClipBody] : st \in Statuses} :
          LET r == create_clip(TestSession, video_id, response)
          IN  api' = [fn |-> "create_clip",
                      args |-> [video_id |-> video_id, response |-> response],
                      sent |-> r.sent, result |-> r.result]
    /\ UNCHANGED ApiOthers

CallTwitchAPISession ==
    /\ \E client_id \in {"test_client_id", ""}, access_token \in {"test_access_token", ""} :
          api' = [fn |-> "TwitchAPISession",
                  args |-> [client_id |-> client_id, access_token |-> access_token],
                  sent |-> <<>>,
                  result |-> TwitchAPISession(client_id, access_token, ModuleGlobals)]
    /\ UNCHANGED ApiOthers

\* wait_for_event over a whole stream of log lines: the outcome at the first
\* line that ends the wait, or the outcome at the end of the stream
RECURSIVE wait(_)
wait(lines) ==
    IF lines = <<>> THEN wait_at_stream_end
    ELSE IF wait_for_event(Head(lines)) # Pending THEN wait_for_event(Head(lines))
    ELSE wait(Tail(lines))

\* what the player process shows of filter, speed and position
Shown(player) == [af |-> player.af, speed |-> player.speed, time_pos |-> player.time_pos]

\* skip_silence() of streamlink_cli.py on a player that emits the given log
\* lines: the player after each statement, up to the one that raises
skip_silence(player, lines) ==
    LET p1 == [player EXCEPT !.loglevel = Loglevel("cli")]
        p2 == [p1 EXCEPT !.af = SILENCEDETECT]
        p3 == [p2 EXCEPT !.speed = 100]
        r  == wait(lines)
        p4 == IF r.kind = "return" THEN [p3 EXCEPT !.time_pos = r.val] ELSE p3
        p5 == [p4 EXCEPT !.speed = 1]
        p6 == [p5 EXCEPT !.af = ""]
    IN  IF r.kind = "raise" /\ ~caught(r.exc)
        THEN [player |-> <<p1, p2, p3>>, exc |-> r.exc]
        ELSE [player |-> <<p1, p2, p3, p4, p5, p6>>, exc |-> ""]

\* TwitchPlayer.skip_silence() on self.mpv: the assignments go to attributes
\* of the TwitchPlayer object, the player is touched by set_loglevel only
TwitchPlayer_skip_silence(self, player, lines) ==
    LET p1 == [player EXCEPT !.loglevel = Loglevel("class")]
        s2 == [self EXCEPT !.audio_filter = SILENCEDETECT]
        s3 == [s2 EXCEPT !.speed = 100]
        r  == wait(lines)
        s4 == IF r.kind = "return" THEN [s3 EXCEPT !.time_pos = r.val] ELSE s3
        s5 == [s4 EXCEPT !.speed = 1]
        s6 == [s5 EXCEPT !.audio_filter = ""]
    IN  IF r.kind = "raise" /\ ~caught(r.exc)
        THEN [player |-> <<p1, p1, p1>>, self |-> s3, exc |-> r.exc]
        ELSE [player |-> <<p1, p1, p1, p1, p1, p1>>, self |-> s6, exc |-> ""]

\* get_streams on helper objects with each choice of the three filters, with
\* and without a query of the caller
Queries == {<<>>, <<"game_id", "=", "33214">>, <<"type", "=", "all">>,
            <<"user_id", "=", "1", "&", "first", "=", "5">>}

CallGetStreams ==
    /\ \E user_id \in {"", "1"}, user_login \in {"", "chan"}, game_id \in {"", "33214"},
          query \in Queries :
          LET self == [APIhelper EXCEPT !.user_id = user_id, !.user_login = user_login,
                                        !.game_id = game_id]
              r == get_streams(CONFIG(EnvNames), self, TokenBody, query,
                               [status |-> 200, isJson |-> TRUE, body |-> [data |-> <<>>]])
          IN  api' = [fn |-> "get_streams", args |-> [self |-> self, query |-> query],
                      built |-> streams_query(self, query),
                      sent |-> r.sent, result |-> r.result]
    /\ UNCHANGED ApiOthers

\* both functions run on a fresh player that emits the same log lines
CallSkipSilence ==
    /\ \E lines \in SeqsUpTo(LogLines, MaxLog) :
          api' = [fn |-> "skip_silence", args |-> [lines |-> lines], sent |-> <<>>,
                  result |-> [module |-> skip_silence(MpvInit, lines),
                              class |-> TwitchPlayer_skip_silence(TwitchPlayerInit, MpvInit, lines)]]
    /\ UNCHANGED ApiOthers

CallTimeObserver ==
    /\ \E v \in Variants, value \in Positions :
          api' = [fn |-> "time_observer", args |-> [variant |-> v, value |-> value],
                  sent |-> <<>>, result |-> time_observer(v, value)]
    /\ UNCHANGED ApiOthers

InitApi == InitRun({0}, {<<>>}, {EnvNames}, {0}, {0}, {<<>>}) /\ variant = "cli" /\ authStatus = 200 /\ online

NextApi ==
    \/ CallGetAccessToken
    \/ CallGetUsers
    \/ CallGetUserById
    \/ CallApiRequest
    \/ CallPrintNowPlaying
    \/ CallPlayerPrintNowPlaying
    \/ CallTimeObserver
    \/ CallTwitchAPISession
    \/ CallBlockUser
    \/ CallCreateClip
    \/ CallQueryMethod
    \/ CallSkipSilence
    \/ CallGetStreams

SpecApi == InitApi /\ [][NextApi]_vars

(***************************************************************************)
(* Properties of the API helpers                                           *)
(***************************************************************************)
OnePostOfCredentials ==
    /\ Len(api.sent) = 1
    /\ api.sent[1] = [method |-> "POST", url |-> "https://id.twitch.tv/oauth2/token",
                      body |-> [client_id |-> api.args.client_id,
                                client_secret |-> api.args.client_secret,
                                grant_type |-> "client_credentials"]]

\* C7 as stated: get_access_token sends exactly one POST with client_id,
\* client_secret and grant_type=client_credentials, and on every status
\* outside 200..299 it raises and returns no token.
C7_TokenFailsOnNon2xx ==
    api.fn = "get_access_token"
        => /\ OnePostOfCredentials
           /\ api.args.response.status \notin 200..299
                => (api.result.kind = "raise" /\ api.result.body = NoBody)

\* C7 as amended: get_access_token sends exactly one POST with client_id,
\* client_secret and grant_type=client_credentials, and on every 4xx or 5xx
\* status it raises and returns no token.
C7_TokenFailsOnErrorStatus ==
    api.fn = "get_access_token"
        => /\ OnePostOfCredentials
           /\ api.args.response.status \in 400..599
                => (api.result.kind = "raise" /\ api.result.body = NoBody)

C7_Witness ==
    /\ api.fn = "get_access_token"
    /\ api.args.response = [status |-> 401, isJson |-> TRUE, body |-> ErrorBody]
    /\ api.result = Raise("HTTPError")
    /\ Len(api.sent) = 1

IsNowPlaying == api.fn \in {"print_now_playing", "player_print_now_playing"}
\* a response of the streams shape: a data list whose entries carry the
\* fields game_name and title
StreamsShape(array) ==
    /\ "data" \in DOMAIN array
    /\ \A i \in 1..Len(array.data) :
          "game_name" \in DOMAIN array.data[i] /\ "title" \in DOMAIN array.data[i]

\* C8: in both scripts print_now_playing prints "<channel> - [<game>] : <title>"
\* for a data list of exactly one element and "<channel> is not live" for
\* every other length.
C8_NowPlayingFormat ==
    (IsNowPlaying /\ StreamsShape(api.args.array))
        => api.result =
             Printed(IF Len(api.args.array.data) = 1
                     THEN "chan - [" \o api.args.array.data[1].game_name \o "] : "
                              \o api.args.array.data[1].title
                     ELSE "chan is not live")

\* C9: on every response of the streams shape print_now_playing prints one of
\* its two outputs and raises nothing, whether or not the optional field
\* started_at is there: the not-live line exactly when the data list does not
\* have one element.
C9_NowPlayingTotal ==
    (IsNowPlaying /\ StreamsShape(api.args.array))
        => /\ api.result.kind = "print"
           /\ (api.result.text = "chan is not live") <=> (Len(api.args.array.data) # 1)

C9_Witness ==
    /\ api.fn = "print_now_playing"
    /\ api.args.array = [data |-> <<EntryNoStart>>]
    /\ api.result.kind = "print"

IsUserQuery == api.fn \in {"get_users", "get_user_by_id"}

\* C10: a metadata query raises instead of returning a body on a status outside
\* 200..299; get_users and get_user_by_id raise RuntimeError on 400 and 429.
C10_QueryFailsOnNon2xx ==
    /\ (IsUserQuery \/ api.fn = "api_request") /\ api.args.response.status \notin 200..299
          => api.result.kind = "raise"
    /\ IsUserQuery /\ api.args.response.status \in {400, 429}
          => api.result = Raise("RuntimeError")

\* C16: the time-pos observer prints "Now playing at <seconds>s" with two
\* decimals when the value is a number, and prints nothing and raises nothing
\* when the value is None, in every script variant.
C16_ObserverPrintsNumbersOnly ==
    api.fn = "time_observer"
        => api.result =
             (CASE api.args.value = NoPos -> Silent
                [] api.args.value = 0 -> Printed("Now playing at 0.00s")
                [] api.args.value = 5 -> Printed("Now playing at 0.05s")
                [] api.args.value = 1250 -> Printed("Now playing at 12.50s")
                [] api.args.value = 6001 -> Printed("Now playing at 60.01s"))

C20_ConstructorSucceeds ==
    api.fn = "TwitchAPISession" =>
        /\ (api.args.client_id # "" /\ api.args.access_token # "")
              => (api.result.kind = "return" /\ api.result.self # NoSelf)
        /\ api.result.kind = "raise"
              => (api.args.client_id = "" \/ api.args.access_token = "")

\* C21: block_user raises ValueError and sends nothing when the session holds
\* neither token; otherwise it sends one request, raises RuntimeError on 401,
\* raises RuntimeError with the body's message (or "Unknown error") on every
\* other status that is not 200, and returns the parsed body only on 200.
C21_BlockUserOutcomes ==
    api.fn = "block_user" =>
        IF api.args.access_token = "" /\ api.args.oauth_token = ""
        THEN api.sent = <<>> /\ api.result.exc = "ValueError"
        ELSE /\ Len(api.sent) = 1
             /\ api.args.response.status = 401 => api.result.exc = "RuntimeError"
             /\ api.args.response.status \notin {200, 401} =>
                   /\ api.result.exc = "RuntimeError"
                   /\ api.result.msg =
                        "Error blocking user: "
                            \o (IF "message" \in DOMAIN api.args.response.body
                                THEN api.args.response.body.message ELSE "Unknown error")
             /\ api.result.kind = "return" =>
                   (api.args.response.status = 200
                    /\ api.result.body = api.args.response.body)

\* C22: invalid input is rejected before any request is sent: get_users raises
\* ValueError for an empty list of logins, get_user_by_id raises TypeError for
\* a user id that is not a string.
C22_InvalidInputRejected ==
    /\ (api.fn = "get_users" /\ api.args.logins = [list |-> <<>>])
          => (api.sent = <<>> /\ api.result.kind = "raise" /\ api.result.exc = "ValueError")
    /\ (api.fn = "get_user_by_id" /\ "str" \notin DOMAIN api.args.user_id)
          => (api.sent = <<>> /\ api.result.kind = "raise" /\ api.result.exc = "TypeError")

\* the texts of a list joined by commas
RECURSIVE joined(_)
joined(l) ==
    IF l = <<>> THEN ""
    ELSE IF Len(l) = 1 THEN l[1]
    ELSE l[1] \o "," \o joined(Tail(l))

\* C23: for a non-empty list of logins get_users sends one GET to
\* "https://api.twitch.tv/helix/users" whose login parameter is the text of
\* the logins joined by commas (a list of one login is sent as that text
\* anyway); create_clip sends one POST to
\* "https://api.twitch.tv/helix/clips" with the JSON body
\* {broadcaster_id: <the given id>}.
C23_EndpointsAndParameters ==
    /\ (api.fn = "get_users" /\ api.args.logins.list # <<>>) =>
          /\ Len(api.sent) = 1
          /\ api.sent[1].method = "GET"
          /\ api.sent[1].url = "https://api.twitch.tv/helix/users"
          /\ \/ api.sent[1].params = [login |-> [str |-> joined(api.args.logins.list)]]
             \/ /\ Len(api.args.logins.list) = 1
                /\ api.sent[1].params = [login |-> api.args.logins]
    /\ api.fn = "create_clip" =>
          /\ Len(api.sent) = 1
          /\ api.sent[1].method = "POST"
          /\ api.sent[1].url = "https://api.twitch.tv/helix/clips"
          /\ api.sent[1].json = [broadcaster_id |-> api.args.video_id]

Phase ==
    IF released > 0 THEN 4
    ELSE IF InSeq("wait_for_playback", cmds) THEN 3
    ELSE IF playIssued THEN 2
    ELSE IF opts # {} THEN 1
    ELSE 0

\* C25: a playback session moves through Idle, Configured, Playing, Draining
\* and Terminated in this order, one state at a time: play is issued only when
\* all options of the script are applied, the blocking wait for the end of
\* playback begins only after play, and the handle is released only after
\* that wait has returned.
C25_PhasesInOrder ==
    /\ [][Phase' \in {Phase, Phase + 1}]_vars
    /\ [](playIssued => opts = Config(variant))
    /\ [](pc \in {"wait", "del", "done"} => playIssued)
    /\ [](released > 0 => InSeq("wait_for_playback", cmds) /\ released = 1)

C25_Witness ==
    /\ variant = "cli" /\ pc = "done" /\ Phase = 4
    /\ opts = Config("cli")
    /\ InSeq("play", cmds)

SkipSteps == {"set_loglevel", "af=silencedetect", "speed=100", "wait_for_event",
              "seek", "speed=1", "af="}

SkipOrder(matched) ==
    <<"set_loglevel", "af=silencedetect", "speed=100", "wait_for_event">>
        \o (IF matched THEN <<"seek">> ELSE <<>>) \o <<"speed=1", "af=">>

PrefixOf(a, b) == Len(a) <= Len(b) /\ SubSeq(b, 1, Len(a)) = a

SkipDone == SelectSeq(cmds, LAMBDA c : c \in SkipSteps)

\* C26: the module-level skip_silence acts on the player in one order, each
\* step once: log verbosity, silencedetect filter, speed 100, the wait, the
\* seek (only when an event matched), speed 1, filter cleared.  The wait ends
\* at the first event that matches, and when skip_silence has returned all
\* steps are done and none is done again.
C26_SkipStepsInOrder ==
    variant \in {"cli", "root"} =>
        /\ PrefixOf(SkipDone, SkipOrder(TRUE)) \/ PrefixOf(SkipDone, SkipOrder(FALSE))
        /\ InSeq("seek", cmds) => waitRes.kind = "return" /\ mpv.time_pos = waitRes.val
        /\ \A j \in 1..Len(seen) : wait_for_event(seen[j]) # Pending => j = Len(seen)
        /\ pc = "skip_wait" => mpv.af = SILENCEDETECT /\ mpv.speed = 100
        /\ pc \in {"wait", "del", "done"}
              => /\ SkipDone = SkipOrder(waitRes.kind = "return")
                 /\ mpv.af = "" /\ mpv.speed = 1

C26_Witness ==
    /\ variant = "cli" /\ pc = "done"
    /\ SkipDone = SkipOrder(TRUE)
    /\ seen = <<LineOther, LineDetect>>

\* the control thread is inside one of its blocking waits
Blocked == (pc = "skip_wait" /\ waitRes = Pending) \/ (pc = "wait" /\ ~playbackEnded)

\* C27: the stream and the three callbacks are registered before play is
\* issued, registration is over before the producer runs for the first time,
\* the producer's first read comes after play, and a blocking wait of the
\* control thread does not hold the producer back.
C27_RegisteredBeforePlay ==
    /\ [](playIssued => registered = {"python_stream", "time-pos", "q", "s"})
    /\ [][registered' # registered => ~playIssued /\ rd = "unstarted" /\ rd' = "unstarted"]_vars
    /\ [](rd # "unstarted" \/ rdBlocks # <<>> => InSeq("play", cmds))
    /\ [](Blocked /\ playIssued /\ rd \in {"unstarted", "suspended"} /\ ~EofDelivered
             => ENABLED reader("best"))

C27_Witness ==
    /\ pc = "skip_wait" /\ waitRes = Pending
    /\ rd = "suspended" /\ Len(rdBlocks) = 1
    /\ registered = {"python_stream", "time-pos", "q", "s"}

\* C28: in every script, skip_silence is invoked only on a player that has
\* been told to play the virtual source.
C28_SkipOnlyAfterPlay ==
    InSeq("set_loglevel", cmds) => playIssued /\ InSeq("play", cmds)

\* C29: on the same log lines TwitchPlayer.skip_silence leaves the player's
\* audio filter, speed and position after each step as the module-level
\* skip_silence does.
C29_ClassSkipSameEffect ==
    api.fn = "skip_silence" =>
        /\ Len(api.result.class.player) = Len(api.result.module.player)
        /\ \A j \in 1..Len(api.result.module.player) :
              Shown(api.result.class.player[j]) = Shown(api.result.module.player[j])

\* the filter that the attributes of a helper object supply
OwnFilter(self) ==
    IF self.user_id # "" THEN <<"user_id", "=", self.user_id>>
    ELSE IF self.user_login # "" THEN <<"user_login", "=", self.user_login>>
    ELSE IF self.game_id # "" THEN <<"game_id", "=", self.game_id>>
    ELSE <<>>

\* the positions of the parameter names of a query
NamesAt(q) == {j \in 1..(Len(q) - 1) : q[j + 1] = "="}

\* C30: get_streams uses a query of its caller as given, otherwise the first
\* non-empty of user_id, user_login and game_id; it appends type, language
\* and first in this order; the query it sends does not begin with "&" and
\* names no parameter twice.
C30_StreamsQueryWellFormed ==
    api.fn = "get_streams" =>
        LET self == api.args.self
            q == api.built
        IN  /\ q = (IF api.args.query # <<>> THEN api.args.query ELSE OwnFilter(self))
                       \o <<"&", "type", "=", self.type, "&", "language", "=", self.lang,
                             "&", "first", "=", ToString(self.first)>>
            /\ api.sent[1].url = <<"https://api.twitch.tv/helix/streams", "?", text(q)>>
            /\ q[1] # "&"
            /\ \A j, k \in NamesAt(q) : q[j] = q[k] => j = k

====
